---- MODULE Spec2Model ----
(***************************************************************************)
(* A model of AttendanceSystem (src/app.py): the roster store              *)
(* (classes_data), the attendance ledger (attendance_records), the open    *)
(* attendance windows with their buttons, the spreadsheet files the        *)
(* program reads and overwrites, and the handlers add_new_class,           *)
(* open_attendance_screen, toggle_attendance and save_attendance.          *)
(*                                                                         *)
(* A cell is a record [t, n, s]: an integer cell I(n) or a string cell     *)
(* S(s).  A DataFrame is a sequence of columns [name, cells]; pandas       *)
(* allows two columns with one label, and so does the sequence.            *)
(***************************************************************************)
EXTENDS Integers, Sequences, FiniteSets, TLC

VARIABLES
    files,              \* the file system: path -> [state, table]
    classes_data,       \* self.classes_data: class name -> record
    attendance_records, \* self.attendance_records: class name -> (id -> BOOLEAN)
    student_buttons,    \* self.student_buttons: class name -> set of ids
    class_tiles,        \* the classes that have a tile in classes_frame
    windows,            \* the open attendance windows (Toplevel), in order
    now,                \* the system clock: index of the current calendar day
    messagebox,         \* the dialog the last handler showed ("" when none)
    nsteps,             \* number of steps taken so far
    last                \* what the last handler did (history)

vars == <<files, classes_data, attendance_records, student_buttons,
          class_tiles, windows, now, messagebox, nsteps, last>>

-----------------------------------------------------------------------------
(* Bounds of the model.                                                    *)

MaxSteps == 6

-----------------------------------------------------------------------------
(* Cells and strings.                                                      *)

I(n) == [t |-> "int", n |-> n, s |-> ""]
S(s) == [t |-> "str", n |-> 0, s |-> s]

\* str(value) of a cell value
Str(c) == IF c.t = "int" THEN ToString(c.n) ELSE c.s

UpperLetters == "ABCDEFGHIJKLMNOPQRSTUVWXYZ"
LowerLetters == "abcdefghijklmnopqrstuvwxyz"

LowerChar(c) ==
    IF \E i \in 1..Len(UpperLetters) : SubSeq(UpperLetters, i, i) = c
    THEN LET i == CHOOSE j \in 1..Len(UpperLetters) : SubSeq(UpperLetters, j, j) = c
         IN  SubSeq(LowerLetters, i, i)
    ELSE c

RECURSIVE Lower(_)
\* str.lower()
Lower(s) ==
    IF Len(s) = 0 THEN ""
    ELSE LowerChar(SubSeq(s, 1, 1)) \o Lower(SubSeq(s, 2, Len(s)))

\* pattern in s
Contains(s, pattern) ==
    \E i \in 1..(Len(s) - Len(pattern) + 1) :
        SubSeq(s, i, i + Len(pattern) - 1) = pattern

\* position of the last occurrence of the one-character string ch in s, or 0
LastIndexOf(s, ch) ==
    LET hits == {i \in 1..Len(s) : SubSeq(s, i, i) = ch}
    IN  IF hits = {} THEN 0 ELSE CHOOSE i \in hits : \A j \in hits : j <= i

\* position of the first occurrence of the one-character string ch in s, or 0
FirstIndexOf(s, ch) ==
    LET hits == {i \in 1..Len(s) : SubSeq(s, i, i) = ch}
    IN  IF hits = {} THEN 0 ELSE CHOOSE i \in hits : \A j \in hits : i <= j

\* os.path.basename(file_path)
Basename(file_path) ==
    SubSeq(file_path, LastIndexOf(file_path, "/") + 1, Len(file_path))

\* os.path.basename(file_path).split('.')[0]
ClassNameOf(file_path) ==
    LET base == Basename(file_path)
        dot  == FirstIndexOf(base, ".")
    IN  IF dot = 0 THEN base ELSE SubSeq(base, 1, dot - 1)

Pad2(n) == IF n < 10 THEN "0" \o ToString(n) ELSE ToString(n)

\* the calendar day the clock shows at index i
DateOf(i) == [day |-> 4 + i, month |-> 6, year |-> 2024]

\* datetime.strftime("%d-%m-%y")
Strftime(d) == Pad2(d.day) \o "-" \o Pad2(d.month) \o "-" \o Pad2(d.year % 100)

\* datetime.now().strftime("%d-%m-%y")
Today == Strftime(DateOf(now))

-----------------------------------------------------------------------------
(* DataFrames.                                                             *)

Col(name, cells) == [name |-> name, cells |-> cells]

Names(df) == [i \in 1..Len(df) |-> df[i].name]

NameSet(df) == {df[i].name : i \in 1..Len(df)}

\* len(df.index)
NRows(df) == IF Len(df) = 0 THEN 0 ELSE Len(df[1].cells)

RECURSIVE SelectLabel(_, _)
\* the columns of df labelled key, in order (df[key] for one label)
SelectLabel(df, key) ==
    IF Len(df) = 0 THEN <<>>
    ELSE (IF df[1].name = key THEN <<df[1]>> ELSE <<>>)
         \o SelectLabel(Tail(df), key)

RECURSIVE GetItemList(_, _)
\* df[keys] for a list of labels: every label yields all columns carrying it
GetItemList(df, keys) ==
    IF Len(keys) = 0 THEN <<>>
    ELSE SelectLabel(df, keys[1]) \o GetItemList(df, Tail(keys))

\* df[key] = cells: overwrite every column labelled key, or append a new one
SetItem(df, key, cells) ==
    IF key \in NameSet(df)
    THEN [i \in 1..Len(df) |-> IF df[i].name = key THEN Col(key, cells) ELSE df[i]]
    ELSE Append(df, Col(key, cells))

\* [col for col in df.columns if col not in [roll_col, name_col, "Total"]]
OtherColumns(df, roll_col, name_col) ==
    SelectSeq(Names(df), LAMBDA col : col \notin {roll_col, name_col, "Total"})

\* df[[roll_col, name_col, "Total"] + other_columns]
Reorder(df, roll_col, name_col) ==
    GetItemList(df, <<roll_col, name_col, "Total">> \o OtherColumns(df, roll_col, name_col))

\* the header pandas gives the i-th column of a sheet: a repeated header is
\* renamed "X.1", "X.2", ...
MangledName(table, i) ==
    LET k == Cardinality({j \in 1..(i - 1) : table[j].name = table[i].name})
    IN  IF k = 0 THEN table[i].name ELSE table[i].name \o "." \o ToString(k)

\* pd.read_excel(file_path) of a readable file
ReadExcel(file) ==
    [i \in 1..Len(file.table) |-> Col(MangledName(file.table, i), file.table[i].cells)]

\* the file df.to_excel(path, index=False) leaves behind
ToExcel(df) == [state |-> "ok", table |-> df]

-----------------------------------------------------------------------------
(* The spreadsheets on disk when the program starts.                       *)

Paths == {"a/cse.xlsx", "b/cse.v2.xls", "c/cse.xlsx", "d/cse.xlsx",
          "e/cse.xlsx", "f/cse.xlsx", "g/cse.xlsx", "h/none.xlsx"}

\* what a write that failed after the file was opened for writing leaves
TornFile == [state |-> "torn", table |-> <<>>]

Disk ==
    [p \in Paths |->
        CASE p = "a/cse.xlsx" ->
               ToExcel(<<Col("Roll No", <<I(101), I(102)>>),
                         Col("Student Name", <<S("Asha"), S("Ravi")>>)>>)
          [] p = "b/cse.v2.xls" ->
               ToExcel(<<Col("05-06-24", <<S("Present"), S("present")>>),
                         Col("Student Name", <<S("Ravi"), S("Zoya")>>),
                         Col("Total", <<I(7), I(0)>>),
                         Col("04-06-24", <<S("PRESENT"), S("Present")>>),
                         Col("Enrollment", <<I(102), I(103)>>)>>)
          [] p = "c/cse.xlsx" ->
               ToExcel(<<Col("Marks", <<I(55), I(60)>>),
                         Col("Roll No", <<I(7), I(7)>>)>>)
          [] p = "d/cse.xlsx" ->
               ToExcel(<<Col("Middle Name", <<S("K"), S("M")>>),
                         Col("Roll No", <<I(101), S("101")>>),
                         Col("06-06-24", <<S("Present"), S("Absent")>>)>>)
          [] p = "e/cse.xlsx" ->
               ToExcel(<<Col("Roll No", <<I(1), I(2)>>)>>)
          [] p = "f/cse.xlsx" ->
               ToExcel(<<Col("Total", <<I(3), I(3)>>),
                         Col("Marks", <<I(1), I(2)>>)>>)
          [] p = "g/cse.xlsx" ->
               ToExcel(<<Col("05-06-24", <<S("Present"), S("Absent")>>),
                         Col("04-06-24", <<S("Present"), S("Present")>>)>>)
          [] OTHER -> ToExcel(<<>>)]

-----------------------------------------------------------------------------
(* add_new_class and detect_data_columns.                                  *)

roll_patterns == {"roll", "enrollment", "id", "number"}
name_patterns == {"name", "student"}

\* roll_col = name_col = None
None == ""

\* any(pattern in col_lower for pattern in patterns), col_lower = str(col).lower()
AnyPatternIn(col, patterns) ==
    LET col_lower == Lower(col)
    IN  \E pattern \in patterns : Contains(col_lower, pattern)

\* The headers of the sheets on disk, "Total", and the first dates the clock
\* can show; the two sets below hold the test's answer for them, worked out
\* once.  Any other header is tested where it is met.
KnownHeaders ==
    UNION {NameSet(Disk[p].table) : p \in Paths}
        \cup {"Total"} \cup {Strftime(DateOf(i)) : i \in 1..3}

KnownRollHeaders == {col \in KnownHeaders : AnyPatternIn(col, roll_patterns)}
KnownNameHeaders == {col \in KnownHeaders : AnyPatternIn(col, name_patterns)}

MatchesRoll(col) ==
    IF col \in KnownHeaders THEN col \in KnownRollHeaders
    ELSE AnyPatternIn(col, roll_patterns)

MatchesName(col) ==
    IF col \in KnownHeaders THEN col \in KnownNameHeaders
    ELSE AnyPatternIn(col, name_patterns)

RECURSIVE DetectScan(_, _, _)
\* the loop over df.columns: the if / elif fills at most one slot per column
DetectScan(columns, roll_col, name_col) ==
    IF Len(columns) = 0 THEN <<roll_col, name_col>>
    ELSE LET col == columns[1]
         IN  IF roll_col = None /\ MatchesRoll(col)
             THEN DetectScan(Tail(columns), col, name_col)
             ELSE IF name_col = None /\ MatchesName(col)
                  THEN DetectScan(Tail(columns), roll_col, col)
                  ELSE DetectScan(Tail(columns), roll_col, name_col)

\* roll_col or df.columns[0], name_col or df.columns[1] raises IndexError
DetectRaises(columns) ==
    LET found == DetectScan(columns, None, None)
    IN  \/ found[1] = None /\ Len(columns) < 1
        \/ found[2] = None /\ Len(columns) < 2

\* detect_data_columns(df), where it returns
DetectDataColumns(columns) ==
    LET found == DetectScan(columns, None, None)
    IN  [roll_col |-> IF found[1] # None THEN found[1] ELSE columns[1],
         name_col |-> IF found[2] # None THEN found[2] ELSE columns[2]]

\* if "Total" not in df.columns: df["Total"] = 0
WithTotal(df) ==
    IF "Total" \in NameSet(df) THEN df
    ELSE SetItem(df, "Total", [i \in 1..NRows(df) |-> I(0)])

\* the record add_new_class stores for a readable file
ClassRecord(file_path, file) ==
    LET df  == WithTotal(ReadExcel(file))
        det == DetectDataColumns(Names(df))
    IN  [dataframe   |-> Reorder(df, det.roll_col, det.name_col),
         file_path   |-> file_path,
         roll_column |-> det.roll_col,
         name_column |-> det.name_col]

\* the try block of add_new_class raises
LoadRaises(file) ==
    \/ file.state # "ok"
    \/ DetectRaises(Names(WithTotal(ReadExcel(file))))

-----------------------------------------------------------------------------
(* create_student_grid, toggle_attendance, save_attendance.                *)

RECURSIVE SeriesRepr(_, _)
SeriesRepr(cols, i) ==
    IF Len(cols) = 0 THEN ""
    ELSE cols[1].name \o "    " \o Str(cols[1].cells[i]) \o "\n" \o SeriesRepr(Tail(cols), i)

\* str(row[roll_col]) for the i-th row: the cell, or, when several columns
\* carry the label, the text of the Series row[roll_col] then is
StudentId(df, roll_col, i) ==
    LET cols == SelectLabel(df, roll_col)
    IN  IF Len(cols) = 1 THEN Str(cols[1].cells[i])
        ELSE SeriesRepr(cols, i) \o "Name: " \o ToString(i - 1) \o ", dtype: object"

\* the ids of the buttons create_student_grid makes, in row order
GridIds(rec) ==
    [i \in 1..NRows(rec.dataframe) |-> StudentId(rec.dataframe, rec.roll_column, i)]

Range(seq) == {seq[i] : i \in 1..Len(seq)}

\* self.attendance_records[class_name][student_id] = False for every row,
\* on the dictionary the class already has (or {} the first time)
FreshLedger(old, ids) ==
    [k \in (DOMAIN old) \cup Range(ids) |-> IF k \in Range(ids) THEN FALSE ELSE old[k]]

\* a lookup that takes a missing id for present
GetDefaultTrue(ledger, student_id) ==
    IF student_id \in DOMAIN ledger THEN ledger[student_id] ELSE TRUE

\* dict.get(student_id, False)
Get(ledger, student_id) ==
    IF student_id \in DOMAIN ledger THEN ledger[student_id] ELSE FALSE

\* attendance_list of save_attendance
AttendanceList(df, roll_col, ledger) ==
    [i \in 1..NRows(df) |->
        IF Get(ledger, StudentId(df, roll_col, i)) THEN S("Present") ELSE S("Absent")]

\* a count that also takes "present" and "PRESENT"
PresentCountAnyCase(df, attendance_columns, i) ==
    LET cols == GetItemList(df, attendance_columns)
    IN  Cardinality({j \in 1..Len(cols) : Lower(Str(cols[j].cells[i])) = "present"})

\* sum(1 for value in row if value == "Present") over df[attendance_columns]
PresentCount(df, attendance_columns, i) ==
    LET cols == GetItemList(df, attendance_columns)
    IN  Cardinality({j \in 1..Len(cols) : cols[j].cells[i] = S("Present")})

\* df["Total"] = df[attendance_columns].apply(..., axis=1)
RecalcTotal(df, roll_col, name_col) ==
    LET attendance_columns == OtherColumns(df, roll_col, name_col)
    IN  SetItem(df, "Total",
                [i \in 1..NRows(df) |-> I(PresentCount(df, attendance_columns, i))])

\* a merge that adds today's column without looking for one of that name
AddTodayAppend(df, date, attendance_list) == Append(df, Col(date, attendance_list))

\* df[date] = attendance_list
AddToday(df, date, attendance_list) == SetItem(df, date, attendance_list)

\* the DataFrame save_attendance hands to to_excel
MergedFrame(rec, ledger, date) ==
    LET df0 == rec.dataframe
        df1 == AddToday(df0, date, AttendanceList(df0, rec.roll_column, ledger))
        df2 == RecalcTotal(df1, rec.roll_column, rec.name_column)
    IN  Reorder(df2, rec.roll_column, rec.name_column)

-----------------------------------------------------------------------------
(* The handlers.                                                           *)

LoadFailed == "Failed to load class"
SaveFailed == "Failed to save attendance"
Saved == "Attendance saved!"

\* how df.to_excel can end: written; refused before the file is touched;
\* failed after the file was opened for writing
WriteOutcomes == {"ok", "refused", "torn"}

\* again: the handler before was a successful save of the same class on the
\* same date, and so is this one
Op(op, class_name, file_path, ok, date, again) ==
    [op |-> op, class_name |-> class_name, file_path |-> file_path, ok |-> ok,
     date |-> date, again |-> again]

RemoveAt(seq, i) == SubSeq(seq, 1, i - 1) \o SubSeq(seq, i + 1, Len(seq))

\* f with key k set to v (k added when new)
Put(f, k, v) == [x \in (DOMAIN f) \cup {k} |-> IF x = k THEN v ELSE f[x]]

Init ==
    /\ files = Disk
    /\ classes_data = <<>>
    /\ attendance_records = <<>>
    /\ student_buttons = <<>>
    /\ class_tiles = {}
    /\ windows = <<>>
    /\ now = 1
    /\ messagebox = ""
    /\ nsteps = 0
    /\ last = Op("init", "", "", TRUE, "", FALSE)

\* add_new_class with the file dialog answering file_path
AddNewClass(file_path) ==
    LET file       == files[file_path]
        class_name == ClassNameOf(file_path)
    IN  /\ nsteps < MaxSteps
        /\ nsteps' = nsteps + 1
        /\ IF LoadRaises(file)
           THEN /\ messagebox' = LoadFailed
                /\ last' = Op("load", class_name, file_path, FALSE, "", FALSE)
                /\ UNCHANGED <<classes_data, class_tiles>>
           ELSE /\ classes_data' = Put(classes_data, class_name, ClassRecord(file_path, file))
                /\ class_tiles' = class_tiles \cup {class_name}
                /\ last' = Op("load", class_name, file_path, TRUE, "", FALSE)
                /\ messagebox' = ""
        /\ UNCHANGED <<files, attendance_records, student_buttons, windows, now>>

\* open_attendance_screen, from the tile of class_name
OpenAttendanceScreen(class_name) ==
    /\ nsteps < MaxSteps
    /\ class_name \in class_tiles
    /\ LET ids == GridIds(classes_data[class_name])
           old == IF class_name \in DOMAIN attendance_records
                  THEN attendance_records[class_name] ELSE <<>>
       IN  /\ attendance_records' = Put(attendance_records, class_name, FreshLedger(old, ids))
           /\ student_buttons' = Put(student_buttons, class_name, Range(ids))
           /\ windows' = Append(windows, [class_name |-> class_name, ids |-> ids])
    /\ last' = Op("open", class_name, "", TRUE, "", FALSE)
    /\ messagebox' = ""
    /\ nsteps' = nsteps + 1
    /\ UNCHANGED <<files, classes_data, class_tiles, now>>

\* toggle_attendance, from button k of open window w.  The button of a
\* window whose grid is no longer the class's latest may name an id that
\* student_buttons lacks: the KeyError comes after the ledger is flipped.
ToggleAttendance(w, k) ==
    /\ nsteps < MaxSteps
    /\ w \in 1..Len(windows)
    /\ k \in 1..Len(windows[w].ids)
    /\ LET class_name == windows[w].class_name
           student_id == windows[w].ids[k]
           ledger     == attendance_records[class_name]
       IN  /\ attendance_records' =
                 [attendance_records EXCEPT
                     ![class_name] = [ledger EXCEPT ![student_id] = ~ledger[student_id]]]
           /\ last' = Op("toggle", class_name, "",
                         student_id \in student_buttons[class_name], "", FALSE)
    /\ messagebox' = ""
    /\ nsteps' = nsteps + 1
    /\ UNCHANGED <<files, classes_data, student_buttons, class_tiles, windows, now>>

\* save_attendance, from the SAVE button of open window w
SaveAttendance(w, outcome) ==
    /\ nsteps < MaxSteps
    /\ w \in 1..Len(windows)
    /\ LET class_name == windows[w].class_name
           rec        == classes_data[class_name]
           df         == MergedFrame(rec, attendance_records[class_name], Today)
       IN  /\ last' = Op("save", class_name, rec.file_path, outcome = "ok", Today,
                         /\ outcome = "ok"
                         /\ last.op = "save" /\ last.ok
                         /\ last.class_name = class_name /\ last.date = Today)
           /\ CASE outcome = "ok" ->
                     /\ files' = [files EXCEPT ![rec.file_path] = ToExcel(df)]
                     /\ messagebox' = Saved
                     /\ windows' = RemoveAt(windows, w)
                [] outcome = "refused" ->
                     /\ messagebox' = SaveFailed
                     /\ UNCHANGED <<files, windows>>
                [] OTHER ->
                     /\ files' = [files EXCEPT ![rec.file_path] = TornFile]
                     /\ messagebox' = SaveFailed
                     /\ UNCHANGED windows
    /\ nsteps' = nsteps + 1
    /\ UNCHANGED <<classes_data, attendance_records, student_buttons, class_tiles, now>>

\* the user closes attendance window w without saving
CloseWindow(w) ==
    /\ nsteps < MaxSteps
    /\ w \in 1..Len(windows)
    /\ windows' = RemoveAt(windows, w)
    /\ nsteps' = nsteps + 1
    /\ UNCHANGED <<files, classes_data, attendance_records, student_buttons,
                   class_tiles, now, messagebox, last>>

\* midnight passes
Tick ==
    /\ nsteps < MaxSteps
    /\ now' = now + 1
    /\ nsteps' = nsteps + 1
    /\ UNCHANGED <<files, classes_data, attendance_records, student_buttons,
                   class_tiles, windows, messagebox, last>>

Next ==
    \/ \E file_path \in Paths : AddNewClass(file_path)
    \/ \E class_name \in class_tiles : OpenAttendanceScreen(class_name)
    \/ \E w \in 1..Len(windows) : \E k \in 1..Len(windows[w].ids) : ToggleAttendance(w, k)
    \/ \E w \in 1..Len(windows), outcome \in WriteOutcomes : SaveAttendance(w, outcome)
    \/ \E w \in 1..Len(windows) : CloseWindow(w)
    \/ Tick

Spec == Init /\ [][Next]_vars

-----------------------------------------------------------------------------
(* What the claims speak of.                                               *)

\* the last handler was a save_attendance that wrote the file
SavedOk == last.op = "save" /\ last.ok

\* the last handler was an add_new_class that stored a record
LoadedOk == last.op = "load" /\ last.ok

\* the record the last handler worked on
LastRecord == classes_data[last.class_name]

\* the table in the file the last handler read or wrote
LastTable == files[last.file_path].table

\* the column names add_new_class passed to detect_data_columns
LoadedColumns == Names(WithTotal(ReadExcel(files[last.file_path])))

Occurrences(names, col) == Cardinality({i \in 1..Len(names) : names[i] = col})

\* the cells of the columns of table named col, one sequence per column
CellsOf(table, col) == {table[j].cells : j \in {k \in 1..Len(table) : table[k].name = col}}

\* names is [roll, name, "Total"] and then the other columns of input in
\* their order, and holds every column of input exactly once
OrderingInvariant(names, rec, input) ==
    /\ names = <<rec.roll_column, rec.name_column, "Total">>
                  \o SelectSeq(input, LAMBDA col :
                         col \notin {rec.roll_column, rec.name_column, "Total"})
    /\ \A col \in Range(input) : Occurrences(names, col) = 1

\* C1: every attendance column that is in the source file before a
\* successful save_attendance is in the file after it with the same cells,
\* except the column named with the date of that save.
C1_HistoricalColumnsKept ==
    [][\A w \in 1..Len(windows) :
          SaveAttendance(w, "ok") =>
             LET rec    == classes_data[windows[w].class_name]
                 before == files[rec.file_path].table
                 after  == files'[rec.file_path].table
             IN  \A j \in 1..Len(before) :
                    before[j].name \notin {rec.roll_column, rec.name_column, "Total", Today}
                       => \E k \in 1..Len(after) : after[k] = before[j]]_vars

\* C2: after a successful save_attendance every Total cell of the written
\* table is the number of columns other than the identifier, name and Total
\* columns whose cell in that row is exactly "Present".
C2_TotalIsPresentCount ==
    SavedOk =>
       \A j \in 1..Len(LastTable) :
          LastTable[j].name = "Total" =>
             \A i \in 1..Len(LastTable[j].cells) :
                LastTable[j].cells[i] =
                   I(Cardinality({k \in 1..Len(LastTable) :
                        /\ LastTable[k].name \notin
                              {LastRecord.roll_column, LastRecord.name_column, "Total"}
                        /\ LastTable[k].cells[i] = S("Present")}))

\* a save wrote a Total that differs from the Total held before, for a row
\* with a historical "Present", a "present" that does not count, and today's
\* column counted
C2_Witness ==
    /\ SavedOk
    /\ \E i \in 1..NRows(LastTable) :
          /\ \E k \in 1..Len(LastTable) :
                /\ LastTable[k].name \notin
                      {LastRecord.roll_column, LastRecord.name_column, "Total", last.date}
                /\ LastTable[k].cells[i] = S("Present")
          /\ \E k \in 1..Len(LastTable) : LastTable[k].cells[i] = S("present")
          /\ \E k \in 1..Len(LastTable) :
                LastTable[k].name = last.date /\ LastTable[k].cells[i] = S("Present")
          /\ \E k \in 1..Len(LastTable) :
                LastTable[k].name = "Total" /\ LastTable[k].cells[i] = I(2)
          /\ \E k \in 1..Len(LastRecord.dataframe) :
                /\ LastRecord.dataframe[k].name = "Total"
                /\ LastRecord.dataframe[k].cells[i] = I(0)

\* C3: after a successful save_attendance the cell of today's column is
\* "Present" in the rows whose stringified identifier the ledger maps to
\* true, and "Absent" in the rows it maps to false or does not hold.
C3_TodayColumnFromLedger ==
    SavedOk =>
       LET ledger == attendance_records[last.class_name]
           rec    == LastRecord
       IN  /\ last.date \in NameSet(LastTable)
           /\ \A j \in 1..Len(LastTable) :
                 LastTable[j].name = last.date =>
                    /\ Len(LastTable[j].cells) = NRows(rec.dataframe)
                    /\ \A i \in 1..NRows(rec.dataframe) :
                          LET id == StudentId(rec.dataframe, rec.roll_column, i)
                          IN  LastTable[j].cells[i] =
                                 IF id \in DOMAIN ledger /\ ledger[id]
                                 THEN S("Present") ELSE S("Absent")

\* a save wrote a row marked present, a row marked absent and a row whose
\* identifier the ledger does not hold
C3_Witness ==
    /\ SavedOk
    /\ LET ledger == attendance_records[last.class_name]
           ids    == GridIds(LastRecord)
       IN  /\ \E i \in 1..Len(ids) : ids[i] \in DOMAIN ledger /\ ledger[ids[i]]
           /\ \E i \in 1..Len(ids) : ids[i] \notin DOMAIN ledger
           /\ \E k \in DOMAIN ledger : ~ledger[k]

\* C4: the stored table after a successful add_new_class, and the written
\* table after a successful save_attendance, have the columns [identifier,
\* name, "Total"] and then all others in their original order, every column
\* of the input exactly once.
C4_ColumnOrdering ==
    /\ LoadedOk =>
          OrderingInvariant(Names(LastRecord.dataframe), LastRecord, LoadedColumns)
    /\ SavedOk =>
          OrderingInvariant(Names(LastTable), LastRecord,
             IF last.date \in NameSet(LastRecord.dataframe)
             THEN Names(LastRecord.dataframe)
             ELSE Append(Names(LastRecord.dataframe), last.date))

\* C5: every stored record has an identifier column and a name column that
\* are two distinct columns of its table, and its table has a "Total" column.
C5_RecordInvariant ==
    \A class_name \in DOMAIN classes_data :
       LET rec == classes_data[class_name]
       IN  /\ rec.roll_column # rec.name_column
           /\ rec.roll_column \in NameSet(rec.dataframe)
           /\ rec.name_column \in NameSet(rec.dataframe)
           /\ "Total" \in NameSet(rec.dataframe)

\* C6: after open_attendance_screen the ledger of the class has exactly the
\* stringified identifiers of the class's current roster as keys, all false.
C6_FreshLedgerOnOpen ==
    last.op = "open" =>
       LET ledger == attendance_records[last.class_name]
       IN  /\ DOMAIN ledger = Range(GridIds(LastRecord))
           /\ \A k \in DOMAIN ledger : ~ledger[k]

\* C7: a successful save that directly follows a successful save of the same
\* class on the same date writes the same Total column again, and the table
\* it writes has exactly one column named with that date.
C7_SaveTwice ==
    [][last'.again =>
          LET before == files[last'.file_path].table
              after  == files'[last'.file_path].table
          IN  /\ CellsOf(after, "Total") = CellsOf(before, "Total")
              /\ Occurrences(Names(after), last'.date) = 1]_vars

\* the second of two saves in a row, on a sheet that came with a column for
\* that date, after a toggle, so that the Total written is not all zero
C7_Witness ==
    /\ last.again
    /\ last.date \in NameSet(LastRecord.dataframe)
    /\ \E cells \in CellsOf(LastTable, "Total") : \E i \in 1..Len(cells) : cells[i] # I(0)
    /\ \E cells \in CellsOf(LastTable, last.date) :
          \E i \in 1..Len(cells) : cells[i] = S("Present")

\* C8: a save_attendance that fails shows the error and leaves every file as
\* it was.
C8_FailedSaveLeavesFile ==
    [][\A w \in 1..Len(windows) : \A outcome \in WriteOutcomes \ {"ok"} :
          SaveAttendance(w, outcome) =>
             /\ messagebox' = SaveFailed
             /\ files' = files]_vars

\* C9: add_new_class of a sheet with fewer than two columns fails with the
\* load error, and a failed add_new_class stores or replaces no record.
C9_TooFewColumnsFails ==
    [][\A file_path \in Paths :
          AddNewClass(file_path) =>
             /\ Len(files[file_path].table) < 2 =>
                   (~last'.ok /\ messagebox' = LoadFailed)
             /\ ~last'.ok => classes_data' = classes_data]_vars

\* C10: when one column matches an identifier pattern and another column
\* matches a name pattern, detect_data_columns returns two distinct columns,
\* an identifier-matching one as roll_col and a name-matching one as name_col.
C10_InferFindsBoth ==
    LoadedOk =>
       ((\E i, j \in 1..Len(LoadedColumns) :
            /\ i # j
            /\ MatchesRoll(LoadedColumns[i])
            /\ MatchesName(LoadedColumns[j]))
        => /\ LastRecord.roll_column # LastRecord.name_column
           /\ MatchesRoll(LastRecord.roll_column)
           /\ MatchesName(LastRecord.name_column))

====
